---- MODULE Spec2Model ----
(***************************************************************************)
(* Model of src/index.js: the per-call bridge between the Twilio media     *)
(* stream socket (twilioWs) and the OpenAI realtime socket (aiWs).         *)
(* One action per event handler; each action is the whole handler.         *)
(***************************************************************************)
EXTENDS Integers, Sequences, FiniteSets, TLC

VARIABLES
    twState,        \* readyState of twilioWs: "open" | "closing" | "closed"
    aiState,        \* readyState of aiWs: "connecting" | "open" | "closing" | "closed"
    streamSid,      \* let streamSid (line 137)
    aiBusy,         \* let aiBusy (line 138)
    pendingPrompt,  \* let pendingPrompt (line 139)
    lastTextChunk,  \* let lastTextChunk (line 140), a sequence of text tokens
    greetTimer,     \* the setTimeout of line 171: "unset" | "armed" | "fired" |
                    \*   "cancelled" (the process exited before it fired)
    aiSent,         \* messages the last step handed to the AI peer, in order
    toTw,           \* frames handed to the telephony peer so far, in order
    booked,         \* records the last step handed to sendBooking
    scanned,        \* the turn text the last step matched against the marker
    last,           \* the event handled by the last step
    input,          \* the audio the last step received: the samples of an AI
                    \*   audio delta, or <<payload>> of a telephony media frame
    posts,          \* sendBooking promises that have not settled yet
    crashed,        \* the hosting process has terminated
    peerPending,    \* response.create requests the AI peer has not yet acknowledged
    peerActive,     \* responses the AI peer has created and not yet completed
    updatesSent,    \* history: session.update messages handed to the AI peer
    createsSent,    \* history: response.create requests handed to the AI peer
    greetsSent,     \* history: response.create requests carrying the greeting
    turnDeltas,     \* history: the text deltas appended since the last
                    \*   response.done, concatenated
    busyCommits,    \* history: committed events handled while aiBusy since the
                    \*   last response.done, counted up to 2
    aiCloses,       \* history: number of times aiWs has become closed
    started,        \* history: the telephony peer has sent its start event
    nextDelta,      \* history: ordinal of the next AI audio delta event
    sample,         \* encoder specification: the 16-bit input sample
    encoded         \* encoder specification: the byte linearToMuLaw returned, -1 before

vars == <<twState, aiState, streamSid, aiBusy, pendingPrompt, lastTextChunk,
          greetTimer, aiSent, toTw, booked, scanned, last, peerPending,
          peerActive, updatesSent, createsSent, greetsSent, turnDeltas,
          busyCommits, aiCloses, started, nextDelta, input, posts, crashed,
          sample, encoded>>

session == <<streamSid, aiBusy, pendingPrompt, lastTextChunk>>

sockets == <<twState, aiState, aiCloses>>

history == <<turnDeltas, busyCommits>>

delivery == <<posts, crashed>>

(***************************************************************************)
(* Bounds of the model.                                                    *)
(***************************************************************************)
MaxCreates == 2     \* response.create requests sent in one call
MaxText    == 3     \* tokens accumulated in lastTextChunk
MaxTokens  == 4     \* the same, in the specification of the record extractor
MaxDeltas  == 2     \* AI audio delta events in one call

(***************************************************************************)
(* mu-law encoder, lines 14-24.  Bit operations on non-negative integers   *)
(* are written with \div and %; s >> k on a negative s is floor division.  *)
(***************************************************************************)
BIAS == 132
CLIP == 32635
MinSample == -32768
MaxSample == 32767

Pow2(n) == IF n = 0 THEN 1 ELSE 2 ^ n

\* (s >> k) for any integer s (arithmetic shift)
Shr(s, k) == s \div Pow2(k)

\* (s & mask) for a one-bit mask
BitSet(s, mask) == (s \div mask) % 2 = 1

RECURSIVE ExponentLoop(_, _, _)
\* for (mask = 0x4000; (s & mask) === 0 && exponent > 0; mask >>= 1) exponent--;
ExponentLoop(s, mask, exponent) ==
    IF ~BitSet(s, mask) /\ exponent > 0
    THEN ExponentLoop(s, mask \div 2, exponent - 1)
    ELSE exponent

\* const mantissa = (s >> ((exponent === 0) ? 4 : (exponent + 3))) & 0x0F;
MantissaShift(exponent) == IF exponent = 0 THEN 4 ELSE exponent + 3

linearToMuLaw(smp) ==
    LET sign == IF BitSet(Shr(smp, 8) % 256, 128) THEN 128 ELSE 0
        s1   == IF sign # 0 THEN -smp ELSE smp
        s2   == IF s1 > CLIP THEN CLIP ELSE s1
        s3   == s2 + BIAS
        exponent == ExponentLoop(s3, 16384, 7)
        mantissa == Shr(s3, MantissaShift(exponent)) % 16
    IN  255 - (sign + exponent * 16 + mantissa)

(***************************************************************************)
(* 24 kHz PCM16 -> 8 kHz mu-law, lines 231-237.  A payload is modelled as  *)
(* the byte sequence that its base64 text denotes.                         *)
(***************************************************************************)
\* const outLen = Math.floor(samples.length / 3);
OutLen(samples) == Len(samples) \div 3

\* for (let i = 0, j = 0; j < outLen; i += 3, j++) ulaw[j] = linearToMuLaw(samples[i]);
DownsampleEncode(samples) ==
    [j \in 1..OutLen(samples) |-> linearToMuLaw(samples[3 * (j - 1) + 1])]

(***************************************************************************)
(* Turn text.  The text is a sequence of tokens:                           *)
(*   "M" the literal BOOKING:    "{" "}" braces    "k" a "key": prefix      *)
(*   "v" a scalar JSON value     "n" a line break  "x" any other text      *)
(***************************************************************************)
Token == {"M", "{", "}", "k", "v", "n", "x"}

RECURSIVE ParseValue(_, _)
\* JSON.parse on a token sequence: the index after the value that starts at
\* i, or 0 when no value starts there.  Object ::= { } | { k Value }
ParseValue(t, i) ==
    IF i > Len(t) THEN 0
    ELSE IF t[i] = "v" THEN i + 1
    ELSE IF t[i] # "{" \/ i + 1 > Len(t) THEN 0
    ELSE IF t[i + 1] = "}" THEN i + 2
    ELSE IF t[i + 1] # "k" THEN 0
    ELSE LET r == ParseValue(t, i + 2)
         IN  IF r # 0 /\ r <= Len(t) /\ t[r] = "}" THEN r + 1 ELSE 0

\* JSON.parse(m[1]) does not throw (m[1] always starts with a brace)
JsonParses(t) == Len(t) > 0 /\ t[1] = "{" /\ ParseValue(t, 1) = Len(t) + 1

RECURSIVE SkipSpace(_, _)
\* \s* : the first index at or after i that holds no white space
SkipSpace(t, i) ==
    IF i <= Len(t) /\ t[i] = "n" THEN SkipSpace(t, i + 1) ELSE i

\* (\{.*\}) from the brace at j: the last closing brace of the same line
LastBrace(t, j) ==
    LET ends == {e \in (j + 1)..Len(t) :
                    /\ t[e] = "}"
                    /\ \A q \in (j + 1)..(e - 1) : t[q] # "n"}
    IN  IF ends = {} THEN 0 ELSE CHOOSE e \in ends : \A f \in ends : f <= e

\* the marker positions at which /BOOKING:\s*(\{.*\})/ matches
MatchStarts(t) ==
    {i \in 1..Len(t) :
        /\ t[i] = "M"
        /\ LET j == SkipSpace(t, i + 1)
           IN  j <= Len(t) /\ t[j] = "{" /\ LastBrace(t, j) # 0}

\* lastTextChunk.match(/BOOKING:\s*(\{.*\})/): the capture group m[1] of the
\* leftmost match, or <<>> when there is no match (m is null)
BookingMatch(t) ==
    IF MatchStarts(t) = {} THEN <<>>
    ELSE LET i == CHOOSE a \in MatchStarts(t) : \A b \in MatchStarts(t) : a <= b
             j == SkipSpace(t, i + 1)
         IN  SubSeq(t, j, LastBrace(t, j))

\* a recognizer that hands the matched text over without parsing it
RecognizedUnparsed(t) == BookingMatch(t) # <<>>

\* lines 201-210: whether sendBooking is called for the turn text t
Recognized(t) == BookingMatch(t) # <<>> /\ JsonParses(BookingMatch(t))

(***************************************************************************)
(* Socket primitives of the ws library as used by the handlers.            *)
(***************************************************************************)
\* aiWs.close() (lines 274, 281): starts the closing handshake of a socket
\* that is connecting or open, and is a no-op on one closing or closed
WsClose(state) ==
    IF state \in {"connecting", "open"} THEN "closing" ELSE state

\* a send that puts the new frames ahead of the ones already handed over
WsSendAhead(state, out, msgs) == IF state = "open" THEN msgs \o out ELSE out

\* ws.send on a socket that is not open hands nothing to the peer
WsSend(state, out, msgs) == IF state = "open" THEN out \o msgs ELSE out

AiMsg(type, arg) == [type |-> type, arg |-> arg]

\* sendReply (lines 142-147): instructions are present only for a truthy text
ReplyMsg(textOrNull) ==
    AiMsg("response.create", IF textOrNull = "null" THEN "none" ELSE textOrNull)

TwFrame(event, sid, payload, delta) ==
    [event |-> event, streamSid |-> sid, payload |-> payload, delta |-> delta]

\* JavaScript truthiness of the identifier values of the model
Truthy(x) == x \notin {"null", "undefined", ""}

\* a || b
OrElse(a, b) == IF Truthy(a) THEN a ELSE b

Greet == "greet"

(***************************************************************************)
(* Inputs of the handlers.                                                 *)
(***************************************************************************)
\* evt.delta of a response.output_text.delta event: text chunks of a turn
TextChunks == {<<"M", "{", "}">>, <<"x">>}

\* single-token chunks, for the specification of the record extractor
TokenChunks == {<<c>> : c \in Token}

\* evt.delta of an audio delta event, as its 16-bit samples; <<>> is the
\* empty (falsy) delta
AudioDeltas == {<<>>, <<0, 7, 7, -32768>>}

\* data.media.payload of a telephony media frame; "undefined" when absent
MediaPayloads == {"undefined", "p1", "p2"}

\* the first samples of the 440 Hz tone of generateBeepMuLawBase64 (lines 25-34)
BeepSamples == <<0, 11099, 20886>>
generateBeepMuLaw == [i \in 1..Len(BeepSamples) |-> linearToMuLaw(BeepSamples[i])]

(***************************************************************************)
(* State after wss.on('connection') has run (lines 115-147).               *)
(***************************************************************************)
Init ==
    /\ twState = "open"
    /\ aiState = "connecting"
    /\ streamSid = "null"
    /\ aiBusy = FALSE
    /\ pendingPrompt = "null"
    /\ lastTextChunk = <<>>
    /\ greetTimer = "unset"
    /\ aiSent = <<>>
    /\ toTw = <<>>
    /\ booked = <<>>
    /\ scanned = <<>>
    /\ last = "init"
    /\ input = <<>>
    /\ posts = 0
    /\ crashed = FALSE
    /\ peerPending = 0
    /\ peerActive = 0
    /\ updatesSent = 0
    /\ createsSent = 0
    /\ greetsSent = 0
    /\ turnDeltas = <<>>
    /\ busyCommits = 0
    /\ aiCloses = 0
    /\ started = FALSE
    /\ nextDelta = 1
    /\ sample = 0
    /\ encoded = -1

codec == <<sample, encoded>>

Count(msgs, Test(_)) == Len(SelectSeq(msgs, Test))

\* the response.create requests among msgs
Creates(msgs) == Count(msgs, LAMBDA m : m.type = "response.create")

\* What every step records: the event handled, the audio it received (heard),
\* the messages handed to the AI
\* peer (sent: what aiWs.send delivered), the text matched against the
\* marker and the records handed to sendBooking, and the history counters
\* that follow from them.  acked is 1 when the event is the peer's
\* response.created, done is 1 when it is response.done.
Record(tag, heard, sent, text, records, acked, done) ==
    /\ last' = tag
    /\ input' = heard
    /\ aiSent' = sent
    /\ scanned' = text
    /\ booked' = records
    /\ updatesSent' = updatesSent + Count(sent, LAMBDA m : m.type = "session.update")
    /\ createsSent' = createsSent + Creates(sent)
    /\ greetsSent' = greetsSent
          + Count(sent, LAMBDA m : m.type = "response.create" /\ m.arg = Greet)
    /\ peerPending' = peerPending + Creates(sent) - acked
    /\ peerActive' = peerActive + acked - done

\* a step that sends nothing to the AI peer and hands no record over
Quiet(tag) == Record(tag, <<>>, <<>>, <<>>, <<>>, 0, 0)

\* a step that only receives audio
Heard(tag, heard) == Record(tag, heard, <<>>, <<>>, <<>>, 0, 0)

AiReceiving == aiState \in {"open", "closing"}

\* the bound on the requests of one call
MaySend(msgs) == createsSent + Creates(msgs) <= MaxCreates

(***************************************************************************)
(* aiWs lifecycle handlers.                                                *)
(***************************************************************************)
\* aiWs.on('unexpected-response') (lines 149-152): logs only
AiUnexpectedResponse ==
    /\ aiState = "connecting"
    /\ Quiet("ai.unexpected-response")
    /\ UNCHANGED <<sockets, session, greetTimer, toTw, history, started,
                   nextDelta, delivery, codec>>

\* aiWs.on('open') (lines 154-175): session.update, then arm the greeting timer
AiOpen ==
    /\ aiState = "connecting"
    /\ aiState' = "open"
    /\ Record("ai.open", <<>>, WsSend("open", <<>>, <<AiMsg("session.update", "cfg")>>),
              <<>>, <<>>, 0, 0)
    /\ greetTimer' = "armed"
    /\ UNCHANGED <<twState, aiCloses, session, toTw, history, started,
                   nextDelta, delivery, codec>>

\* a timer callback that sends the greeting whatever the busy flag says
GreetReplyAlways(busy) == <<ReplyMsg(Greet)>>

\* if (!aiBusy) sendReply(greet); else pendingPrompt = greet; (line 173)
GreetReply(busy) == IF ~busy THEN <<ReplyMsg(Greet)>> ELSE <<>>

\* a timer callback that queues the greeting whatever the busy flag says
GreetQueueAlways(busy, prompt) == Greet

GreetQueue(busy, prompt) == IF ~busy THEN prompt ELSE Greet

\* the setTimeout callback of lines 171-174
GreetTimer ==
    /\ greetTimer = "armed"
    /\ MaySend(GreetReply(aiBusy))
    /\ greetTimer' = "fired"
    /\ pendingPrompt' = GreetQueue(aiBusy, pendingPrompt)
    /\ Record("timer.greet", <<>>, WsSend(aiState, <<>>, GreetReply(aiBusy)),
              <<>>, <<>>, 0, 0)
    /\ UNCHANGED <<sockets, streamSid, aiBusy, lastTextChunk, toTw, history,
                   started, nextDelta, delivery, codec>>

\* aiWs.on('error') (line 248) followed by the socket's close event: logs only
AiSocketError ==
    /\ aiState # "closed"
    /\ aiState' = "closed"
    /\ aiCloses' = aiCloses + 1
    /\ Quiet("ai.socket.error")
    /\ UNCHANGED <<twState, session, greetTimer, toTw, history, started,
                   nextDelta, delivery, codec>>

\* aiWs.on('close') (line 249): logs only
AiSocketClose ==
    /\ aiState # "closed"
    /\ aiState' = "closed"
    /\ aiCloses' = aiCloses + 1
    /\ Quiet("ai.socket.close")
    /\ UNCHANGED <<twState, session, greetTimer, toTw, history, started,
                   nextDelta, delivery, codec>>

(***************************************************************************)
(* aiWs.on('message') (lines 178-246), one action per kind of event.       *)
(***************************************************************************)
\* a catch block that also resets the turn state
AiUnparseableResets ==
    /\ AiReceiving
    /\ Quiet("ai.unparseable")
    /\ aiBusy' = FALSE
    /\ pendingPrompt' = "null"
    /\ UNCHANGED <<sockets, streamSid, lastTextChunk, greetTimer, toTw, history,
                   started, nextDelta, delivery, codec>>

\* JSON.parse throws (line 180) and the catch of lines 243-245 logs
AiUnparseable ==
    /\ AiReceiving
    /\ Quiet("ai.unparseable")
    /\ UNCHANGED <<sockets, session, greetTimer, toTw, history, started,
                   nextDelta, delivery, codec>>

\* an error branch that gives the session up
AiErrorEventCloses ==
    /\ AiReceiving
    /\ aiState' = WsClose(aiState)
    /\ Quiet("ai.error")
    /\ UNCHANGED <<twState, aiCloses, session, greetTimer, toTw, history,
                   started, nextDelta, delivery, codec>>

\* type === 'error' (lines 187-189): logs only
AiErrorEvent ==
    /\ AiReceiving
    /\ Quiet("ai.error")
    /\ UNCHANGED <<sockets, session, greetTimer, toTw, history, started,
                   nextDelta, delivery, codec>>

\* any other event type (session.created, rate_limits.updated, ...): logs only
AiOtherEvent ==
    /\ AiReceiving
    /\ Quiet("ai.other")
    /\ UNCHANGED <<sockets, session, greetTimer, toTw, history, started,
                   nextDelta, delivery, codec>>

\* type === 'response.created' (lines 191-193); the peer acknowledges a request
AiResponseCreated ==
    /\ AiReceiving
    /\ peerPending > 0
    /\ aiBusy' = TRUE
    /\ Record("ai.response.created", <<>>, <<>>, <<>>, <<>>, 1, 0)
    /\ UNCHANGED <<sockets, streamSid, pendingPrompt, lastTextChunk, greetTimer,
                   toTw, history, started, nextDelta, delivery, codec>>

\* lastTextChunk += evt.delta (line 195)
AppendText(t, delta) == t \o delta

\* type === 'response.output_text.delta' (lines 194-196); a delta that is not
\* a string is ignored
AiTextDelta(chunks, max) ==
    /\ AiReceiving
    /\ peerActive > 0
    /\ \/ \E d \in chunks :
            /\ Len(lastTextChunk) + Len(d) <= max
            /\ lastTextChunk' = AppendText(lastTextChunk, d)
            /\ turnDeltas' = turnDeltas \o d
            /\ Quiet("ai.text.delta")
       \/ /\ UNCHANGED <<lastTextChunk, turnDeltas>>
          /\ Quiet("ai.text.nonstring")
    /\ UNCHANGED <<sockets, streamSid, aiBusy, pendingPrompt, greetTimer, toTw,
                   busyCommits, started, nextDelta, delivery, codec>>

\* lines 201-210: the records handed to sendBooking for the turn text t
BookingsOf(t) == IF Recognized(t) THEN <<BookingMatch(t)>> ELSE <<>>

\* a buffer that is cleared only when a record was recognized
TurnTextKeptOnFailure(t) == IF Recognized(t) THEN <<>> ELSE t

\* lastTextChunk = '' (line 211)
TurnTextAfterDone(t) == <<>>

\* a follow-up request that leaves the queued prompt out
QueuedReplyBare(prompt) == IF Truthy(prompt) THEN <<ReplyMsg("null")>> ELSE <<>>

\* if (pendingPrompt) sendReply(txt) (lines 214-217)
QueuedReply(prompt) == IF Truthy(prompt) THEN <<ReplyMsg(prompt)>> ELSE <<>>

\* type === 'response.done' (lines 197-218)
AiResponseDone ==
    /\ AiReceiving
    /\ peerActive > 0
    /\ MaySend(QueuedReply(pendingPrompt))
    /\ aiBusy' = FALSE
    /\ lastTextChunk' = TurnTextAfterDone(lastTextChunk)
    /\ pendingPrompt' = IF Truthy(pendingPrompt) THEN "null" ELSE pendingPrompt
    /\ Record("ai.response.done", <<>>,
              WsSend(aiState, <<>>, QueuedReply(pendingPrompt)),
              lastTextChunk, BookingsOf(lastTextChunk), 0, 1)
    /\ posts' = posts + Len(BookingsOf(lastTextChunk))
    /\ turnDeltas' = <<>>
    /\ busyCommits' = 0
    /\ UNCHANGED <<sockets, streamSid, greetTimer, toTw, started, nextDelta,
                   crashed, codec>>

\* a committed handler that repeats the greeting as its instructions
CommitReplyGreets(busy) == IF ~busy THEN <<ReplyMsg(Greet)>> ELSE <<>>

\* a committed handler that requests a response whatever the busy flag says
CommitReplyAlways(busy) == <<ReplyMsg("null")>>

\* if (!aiBusy) sendReply(null); else pendingPrompt = null; (line 222)
CommitReply(busy) == IF ~busy THEN <<ReplyMsg("null")>> ELSE <<>>
CommitQueue(busy, prompt) == IF ~busy THEN prompt ELSE "null"

\* type === 'input_audio_buffer.committed' (lines 221-223)
AiCommitted ==
    /\ AiReceiving
    /\ MaySend(CommitReply(aiBusy))
    /\ pendingPrompt' = CommitQueue(aiBusy, pendingPrompt)
    /\ Record("ai.committed", <<>>, WsSend(aiState, <<>>, CommitReply(aiBusy)),
              <<>>, <<>>, 0, 0)
    /\ busyCommits' = IF aiBusy /\ busyCommits < 2 THEN busyCommits + 1
                      ELSE busyCommits
    /\ UNCHANGED <<sockets, streamSid, aiBusy, lastTextChunk, greetTimer, toTw,
                   turnDeltas, started, nextDelta, delivery, codec>>

\* the two frames of lines 238-239 for the audio delta with ordinal id
AudioFrames(sid, samples, id) ==
    << TwFrame("media", sid, DownsampleEncode(samples), id),
       TwFrame("mark", sid, <<>>, id) >>

\* bytes of a delta that Int16Array (line 231) leaves out: the odd last byte
TrailingBytes == {0, 1}

\* evt.delta && streamSid (line 226): a delta that decodes to no byte at all
\* is the empty string, which is falsy
Forwardable(samples, trailing, sid) ==
    2 * Len(samples) + trailing > 0 /\ Truthy(sid)

\* type === 'response.audio.delta' || 'response.output_audio.delta' (lines 226-241)
AiAudioDelta(deltas, max) ==
    /\ AiReceiving
    /\ peerActive > 0
    /\ nextDelta <= max
    /\ \E d \in deltas, odd \in TrailingBytes :
          /\ toTw' = IF Forwardable(d, odd, streamSid)
                     THEN WsSend(twState, toTw, AudioFrames(streamSid, d, nextDelta))
                     ELSE toTw
          /\ Heard("ai.audio.delta", d)
    /\ nextDelta' = nextDelta + 1
    /\ UNCHANGED <<sockets, session, greetTimer, history, started, delivery, codec>>

(***************************************************************************)
(* twilioWs handlers (lines 252-282).                                      *)
(***************************************************************************)
\* JSON.parse throws and the handler returns (line 253)
TwUnparseable ==
    /\ twState = "open"
    /\ Quiet("tw.unparseable")
    /\ UNCHANGED <<sockets, session, greetTimer, toTw, history, started,
                   nextDelta, delivery, codec>>

\* data.start?.streamSid || data.streamSid || data.start?.callSid (line 257)
StartSid(startStreamSid, topStreamSid, startCallSid) ==
    OrElse(OrElse(startStreamSid, topStreamSid), startCallSid)

\* a start case that plays the tone before it clears the peer's buffer
StartFramesToneFirst(sid) ==
    << TwFrame("media", sid, generateBeepMuLaw, 0),
       TwFrame("clear", sid, <<>>, 0),
       TwFrame("mark", sid, <<>>, 0) >>

\* the clear, tone and mark frames of lines 260-263
StartFrames(sid) ==
    << TwFrame("clear", sid, <<>>, 0),
       TwFrame("media", sid, generateBeepMuLaw, 0),
       TwFrame("mark", sid, <<>>, 0) >>

\* case 'start' (lines 256-265); the telephony peer sends one start per stream
TwStart ==
    /\ twState = "open"
    /\ ~started
    /\ started' = TRUE
    /\ \E a \in {"undefined", "MZ1"}, b \in {"undefined", "MZ1"},
          c \in {"undefined", "CA1"} :
          /\ streamSid' = StartSid(a, b, c)
          /\ toTw' = WsSend(twState, toTw, StartFrames(StartSid(a, b, c)))
    /\ Quiet("tw.start")
    /\ UNCHANGED <<sockets, aiBusy, pendingPrompt, lastTextChunk, greetTimer,
                   history, nextDelta, delivery, codec>>

\* a media case that forwards a fixed payload instead of the received one
MediaForwardStale(state, payload) ==
    IF state = "open" /\ Truthy(payload)
    THEN <<AiMsg("input_audio_buffer.append", "p1")>>
    ELSE <<>>

\* aiWs.readyState === WebSocket.OPEN && data.media?.payload (line 267)
MediaForward(state, payload) ==
    IF state = "open" /\ Truthy(payload)
    THEN <<AiMsg("input_audio_buffer.append", payload)>>
    ELSE <<>>

\* case 'media' (lines 266-271)
TwMedia ==
    /\ twState = "open"
    /\ \E p \in MediaPayloads :
          Record("tw.media", <<p>>,
                 WsSend(aiState, <<>>, MediaForward(aiState, p)),
                 <<>>, <<>>, 0, 0)
    /\ UNCHANGED <<sockets, session, greetTimer, toTw, history, started,
                   nextDelta, delivery, codec>>

\* case 'stop' (lines 272-276)
TwStop ==
    /\ twState = "open"
    /\ aiState' = WsClose(aiState)
    /\ Quiet("tw.stop")
    /\ UNCHANGED <<twState, aiCloses, session, greetTimer, toTw, history,
                   started, nextDelta, delivery, codec>>

\* default: (line 277): connected, mark and unknown events
TwOtherEvent ==
    /\ twState = "open"
    /\ Quiet("tw.other")
    /\ UNCHANGED <<sockets, session, greetTimer, toTw, history, started,
                   nextDelta, delivery, codec>>

\* a close handler that leaves the AI connection alone
TwCloseKeepsAi ==
    /\ twState # "closed"
    /\ twState' = "closed"
    /\ Quiet("tw.close")
    /\ UNCHANGED <<aiState, aiCloses, session, greetTimer, toTw, history, started,
                   nextDelta, delivery, codec>>

\* twilioWs.on('close') (line 281)
TwClose ==
    /\ twState # "closed"
    /\ twState' = "closed"
    /\ aiState' = WsClose(aiState)
    /\ Quiet("tw.close")
    /\ UNCHANGED <<aiCloses, session, greetTimer, toTw, history, started,
                   nextDelta, delivery, codec>>

\* twilioWs.on('error') (line 282) logs; the socket's close event follows
TwSocketError ==
    /\ twState # "closed"
    /\ twState' = "closed"
    /\ aiState' = WsClose(aiState)
    /\ Quiet("tw.socket.error")
    /\ UNCHANGED <<aiCloses, session, greetTimer, toTw, history, started,
                   nextDelta, delivery, codec>>

(***************************************************************************)
(* Settlement of sendBooking(booking).then(...) (lines 74-79 and 206).     *)
(***************************************************************************)
\* sendBooking returns normally: no hook URL configured (line 75), or fetch
\* resolved with any HTTP status (line 78 ignores the status); the .then of
\* line 206 logs.  A fetch that never settles is a post that stays pending.
PostResolves ==
    /\ posts > 0
    /\ posts' = posts - 1
    /\ Quiet("post.resolved")
    /\ UNCHANGED <<sockets, session, greetTimer, toTw, history, started,
                   nextDelta, crashed, codec>>

\* the outcomes of a rejected promise that has no rejection handler: the
\* runtime prints a warning and goes on (FALSE), or raises the rejection as
\* an uncaught exception and the process exits (TRUE)
UnhandledRejectionExits == {FALSE, TRUE}

\* fetch rejects (line 78: network failure, unresolvable host, invalid URL),
\* sendBooking rethrows, and the chain of line 206 ends without a .catch.
\* A process that exits takes both sockets and the pending timer with it.
PostRejects ==
    /\ posts > 0
    /\ \E exits \in UnhandledRejectionExits :
          /\ crashed' = exits
          /\ posts' = IF exits THEN 0 ELSE posts - 1
          /\ twState' = IF exits THEN "closed" ELSE twState
          /\ aiState' = IF exits THEN "closed" ELSE aiState
          /\ greetTimer' = IF exits /\ greetTimer = "armed"
                           THEN "cancelled" ELSE greetTimer
    /\ Quiet("post.rejected")
    /\ UNCHANGED <<aiCloses, session, toTw, history, started, nextDelta, codec>>

(***************************************************************************)
(* The bridge of one call.                                                 *)
(***************************************************************************)
Next ==
    \/ AiUnexpectedResponse
    \/ AiOpen
    \/ GreetTimer
    \/ AiSocketError
    \/ AiSocketClose
    \/ AiUnparseable
    \/ AiErrorEvent
    \/ AiOtherEvent
    \/ AiResponseCreated
    \/ AiTextDelta(TextChunks, MaxText)
    \/ AiResponseDone
    \/ AiCommitted
    \/ AiAudioDelta(AudioDeltas, MaxDeltas)
    \/ TwUnparseable
    \/ TwStart
    \/ TwMedia
    \/ TwStop
    \/ TwOtherEvent
    \/ TwClose
    \/ TwSocketError
    \/ PostResolves
    \/ PostRejects

Spec == Init /\ [][Next]_vars

(***************************************************************************)
(* The record extractor on every short turn text: the call is in the       *)
(* middle of the greeting turn (open, greeting requested and acknowledged) *)
(* and the text arrives token by token.                                    *)
(***************************************************************************)
TurnInit ==
    /\ twState = "open"
    /\ aiState = "open"
    /\ streamSid = "null"
    /\ aiBusy = TRUE
    /\ pendingPrompt = "null"
    /\ lastTextChunk = <<>>
    /\ greetTimer = "fired"
    /\ aiSent = <<>>
    /\ toTw = <<>>
    /\ booked = <<>>
    /\ scanned = <<>>
    /\ last = "ai.response.created"
    /\ input = <<>>
    /\ posts = 0
    /\ crashed = FALSE
    /\ peerPending = 0
    /\ peerActive = 1
    /\ updatesSent = 1
    /\ createsSent = 1
    /\ greetsSent = 1
    /\ turnDeltas = <<>>
    /\ busyCommits = 0
    /\ aiCloses = 0
    /\ started = FALSE
    /\ nextDelta = 1
    /\ sample = 0
    /\ encoded = -1

ExtractNext ==
    \/ AiTextDelta(TokenChunks, MaxTokens)
    \/ AiResponseDone
    \/ AiCommitted
    \/ AiResponseCreated
    \/ AiUnparseable

ExtractSpec == TurnInit /\ [][ExtractNext]_vars

(***************************************************************************)
(* The resampler on its own: one audio delta of up to MaxSamples samples,  *)
(* before or after the telephony start event, during an active response.   *)
(***************************************************************************)
MaxSamples == 6

\* silence, a sample of the lowest segment, a mid-range and the extreme ones
SampleValues == {0, -100, 1000, MinSample}

\* new Int16Array(pcm24k.buffer, ...) (line 231): the samples of a delta
SampleRuns == UNION {[1..n -> SampleValues] : n \in 0..MaxSamples}

ResampleNext ==
    \/ TwStart
    \/ AiAudioDelta(SampleRuns, 1)

ResampleSpec == TurnInit /\ [][ResampleNext]_vars

(***************************************************************************)
(* The encoder on every 16-bit sample.                                     *)
(***************************************************************************)
CodecInit ==
    /\ twState = "open"
    /\ aiState = "connecting"
    /\ streamSid = "null"
    /\ aiBusy = FALSE
    /\ pendingPrompt = "null"
    /\ lastTextChunk = <<>>
    /\ greetTimer = "unset"
    /\ aiSent = <<>>
    /\ toTw = <<>>
    /\ booked = <<>>
    /\ scanned = <<>>
    /\ last = "init"
    /\ input = <<>>
    /\ posts = 0
    /\ crashed = FALSE
    /\ peerPending = 0
    /\ peerActive = 0
    /\ updatesSent = 0
    /\ createsSent = 0
    /\ greetsSent = 0
    /\ turnDeltas = <<>>
    /\ busyCommits = 0
    /\ aiCloses = 0
    /\ started = FALSE
    /\ nextDelta = 1
    /\ sample \in MinSample..MaxSample
    /\ encoded = -1

\* ulaw[j] = linearToMuLaw(samples[i]) (line 235) on one sample
Encode ==
    /\ encoded = -1
    /\ encoded' = linearToMuLaw(sample)
    /\ UNCHANGED <<sockets, session, greetTimer, aiSent, toTw, booked, scanned,
                   last, peerPending, peerActive, updatesSent, createsSent,
                   greetsSent, history, started, nextDelta, input, delivery,
                   sample>>

CodecNext == Encode

CodecSpec == CodecInit /\ [][CodecNext]_vars

(***************************************************************************)
(* Properties.                                                             *)
(***************************************************************************)
TwEnded == {"tw.stop", "tw.close", "tw.socket.error"}
AiClosingOrClosed == {"closing", "closed"}

\* C1: the response.create requests sent to the AI peer and not yet matched
\* by a response.done never exceed one.
C1_AtMostOneOutstanding == peerPending + peerActive <= 1

\* C2: when two committed events arrived while a response was active, the
\* following response.done sends exactly one follow-up response.create.
C2_FollowUpAfterBusyCommits ==
    [][(last' = "ai.response.done" /\ busyCommits = 2 /\ aiState = "open")
          => Creates(aiSent') = 1]_vars

\* C3: once the AI-side connection is closed, the telephony-side connection
\* is closing or closed.
C3_AiCloseClosesTelephony ==
    aiState = "closed" => twState \in {"closing", "closed"}

\* C4: a telephony stop or close leaves the AI connection closing or closed,
\* a repeated close request changes nothing, and the AI connection becomes
\* closed at most once.
C4_TelephonyEndClosesAiOnce ==
    [][/\ last' \in TwEnded =>
            /\ aiState' \in AiClosingOrClosed
            /\ aiState \in AiClosingOrClosed => aiState' = aiState
            /\ aiCloses' = aiCloses
       /\ aiCloses' <= 1]_vars

C4_Witness ==
    /\ last = "tw.close"
    /\ twState = "closed"
    /\ aiState = "closed"
    /\ aiCloses = 1
    /\ updatesSent = 0

\* C5: every media frame sent to the telephony peer carries a known stream
\* identifier.
C5_MediaCarriesKnownSid ==
    \A i \in 1..Len(toTw) :
        toTw[i].event = "media" => toTw[i].streamSid \notin {"null", "undefined"}

AiMedia(i) == toTw[i].event = "media" /\ toTw[i].delta > 0

\* C6: the AI media frames sent to the telephony peer are in the order in
\* which their deltas were received, one frame per forwarded delta.
C6_FramesInDeltaOrder ==
    \A i, j \in 1..Len(toTw) :
        (i < j /\ AiMedia(i) /\ AiMedia(j)) => toTw[i].delta < toTw[j].delta

C6_Witness ==
    \E i, j \in 1..Len(toTw) :
        i < j /\ AiMedia(i) /\ AiMedia(j) /\ toTw[j].delta = toTw[i].delta + 1

RECURSIVE HighestBit(_, _)
\* the position of the highest set bit of s among bits 7..14, less 7
HighestBit(s, e) ==
    IF e = 0 \/ (s \div Pow2(e + 7)) % 2 = 1 THEN e ELSE HighestBit(s, e - 1)

\* the G.711 mu-law reference encoder
MuLawReference(smp) ==
    LET sign == IF smp < 0 THEN 128 ELSE 0
        mag  == IF smp < 0 THEN -smp ELSE smp
        s    == (IF mag > 32635 THEN 32635 ELSE mag) + 132
        e    == HighestBit(s, 7)
        m    == (s \div Pow2(e + 3)) % 16
    IN  255 - (sign + 16 * e + m)

\* C7: linearToMuLaw returns a byte, equal to the reference encoder's, for
\* every 16-bit sample.
C7_MatchesReference ==
    encoded # -1 => /\ encoded \in 0..255
                    /\ encoded = MuLawReference(sample)

\* a marker followed, after optional white space, by a JSON object
ObjectAfterMarker(t) ==
    \E i \in 1..Len(t) :
        /\ t[i] = "M"
        /\ \E j \in (i + 1)..Len(t) :
              /\ \A q \in (i + 1)..(j - 1) : t[q] = "n"
              /\ \E e \in j..Len(t) : JsonParses(SubSeq(t, j, e))

\* C8: a response.done hands at most one record to the delivery collaborator
\* and none when no JSON object follows a marker; the failure changes nothing
\* but what every response.done changes.
C8_AtMostOneRecord ==
    [][last' = "ai.response.done" =>
          /\ Len(booked') <= 1
          /\ ~ObjectAfterMarker(scanned') => booked' = <<>>
          /\ scanned' = lastTextChunk
          /\ UNCHANGED <<sockets, streamSid, toTw, greetTimer>>
          /\ ~aiBusy'
          /\ pendingPrompt' = "null"]_vars

C8_Witness ==
    /\ last = "ai.response.done"
    /\ \E i \in 1..Len(scanned) : scanned[i] = "M"
    /\ BookingMatch(scanned) # <<>>
    /\ booked = <<>>
    /\ aiState = "open"

\* C9: after every response.done the text buffer is empty, and the buffer
\* always holds exactly the text deltas received since the last response.done.
C9_BufferClearedAtDone ==
    /\ last = "ai.response.done" => lastTextChunk = <<>>
    /\ lastTextChunk = turnDeltas

C9_Witness ==
    /\ last = "ai.response.done"
    /\ scanned # <<>>
    /\ booked = <<>>
    /\ aiSent # <<>>

\* C10: an unparseable message from either peer changes no session variable,
\* sends nothing to either peer and closes neither connection.
C10_UnparseableChangesNothing ==
    [][last' \in {"ai.unparseable", "tw.unparseable"} =>
          /\ UNCHANGED <<session, sockets, toTw, greetTimer>>
          /\ aiSent' = <<>>
          /\ booked' = <<>>]_vars

C10_Witness ==
    /\ last = "ai.unparseable"
    /\ aiBusy
    /\ pendingPrompt = Greet
    /\ lastTextChunk # <<>>
    /\ Truthy(streamSid)

\* C11: a delivery of a booking record that fails has no effect on the call
\* and does not terminate the hosting process: after a rejected POST the
\* process is still running.
C11_DeliveryFailureHarmless ==
    last = "post.rejected" => ~crashed

\* C12: an AI 'error' event closes neither connection, changes none of the
\* busy flag, the queued prompt, the text buffer and the stream identifier,
\* and sends nothing to either peer.
C12_ErrorEventChangesNothing ==
    [][last' = "ai.error" =>
          /\ UNCHANGED <<twState, aiState, aiCloses>>
          /\ UNCHANGED <<aiBusy, pendingPrompt, lastTextChunk, streamSid>>
          /\ UNCHANGED <<toTw, greetTimer>>
          /\ aiSent' = <<>>]_vars

C12_Witness ==
    /\ last = "ai.error"
    /\ aiState = "open"
    /\ twState = "open"
    /\ aiBusy
    /\ pendingPrompt = Greet
    /\ lastTextChunk # <<>>

\* C13: every response.done step clears the busy flag; if a prompt is queued,
\* exactly one response.create carrying it is sent in that step and the slot
\* is emptied; if none is queued, the step sends no response.create.
C13_DoneIssuesQueuedPrompt ==
    [][last' = "ai.response.done" =>
          /\ ~aiBusy'
          /\ Truthy(pendingPrompt) =>
                /\ aiSent' = <<ReplyMsg(pendingPrompt)>>
                /\ pendingPrompt' = "null"
          /\ ~Truthy(pendingPrompt) =>
                /\ aiSent' = <<>>
                /\ pendingPrompt' = pendingPrompt]_vars

\* C13, amended: every response.done step clears the busy flag and empties
\* the queue slot; a queued prompt is sent as exactly one response.create in
\* that step when the AI connection is open, and is dropped with nothing sent
\* when the connection is already closing; with no prompt queued the step
\* sends no response.create.
C13_DoneIssuesQueuedPromptIfOpen ==
    [][last' = "ai.response.done" =>
          /\ ~aiBusy'
          /\ ~Truthy(pendingPrompt')
          /\ (Truthy(pendingPrompt) /\ aiState = "open") =>
                aiSent' = <<ReplyMsg(pendingPrompt)>>
          /\ (Truthy(pendingPrompt) /\ aiState # "open") => aiSent' = <<>>
          /\ ~Truthy(pendingPrompt) =>
                /\ aiSent' = <<>>
                /\ pendingPrompt' = pendingPrompt]_vars

C13_Witness ==
    /\ last = "ai.response.done"
    /\ aiSent = <<ReplyMsg(Greet)>>
    /\ pendingPrompt = "null"
    /\ ~aiBusy

\* C14: no response.create is sent while the busy flag is true: the steps
\* that send one are the greeting timer and the committed handler, which
\* find the flag false and leave it false, and the response.done handler,
\* which has cleared it.
C14_NoCreateWhileBusy ==
    [][Creates(aiSent') > 0 =>
          /\ last' \in {"timer.greet", "ai.committed", "ai.response.done"}
          /\ last' \in {"timer.greet", "ai.committed"} => ~aiBusy
          /\ ~aiBusy']_vars

C14_Witness ==
    /\ last = "ai.committed"
    /\ Creates(aiSent) = 1
    /\ createsSent = 2
    /\ ~aiBusy
    /\ peerActive = 0

\* C15: the open step sends exactly one session.update, the only one of the
\* call, and no response.create is sent before it; the greeting is sent or
\* queued only by the timer callback, after the settle delay; that callback
\* sends the greeting directly only when the busy flag is false, and puts it
\* in the queue slot, sending nothing, when the flag is true.
C15_ConfigureThenGreet ==
    /\ [](updatesSent <= 1)
    /\ [](createsSent > 0 => updatesSent = 1)
    /\ []((greetsSent > 0 \/ pendingPrompt = Greet) => greetTimer = "fired")
    /\ [][last' = "ai.open" =>
             /\ aiSent' = <<AiMsg("session.update", "cfg")>>
             /\ updatesSent = 0
             /\ createsSent = 0
             /\ greetTimer' = "armed"]_vars
    /\ [][updatesSent' # updatesSent => last' = "ai.open"]_vars
    /\ [][last' = "timer.greet" =>
             /\ greetTimer = "armed"
             /\ aiBusy =>
                   /\ aiSent' = <<>>
                   /\ pendingPrompt' = Greet
             /\ ~aiBusy =>
                   /\ aiSent' = IF aiState = "open"
                                THEN <<ReplyMsg(Greet)>> ELSE <<>>
                   /\ pendingPrompt' = pendingPrompt]_vars

C15_Witness ==
    /\ last = "timer.greet"
    /\ aiBusy
    /\ pendingPrompt = Greet
    /\ updatesSent = 1
    /\ createsSent = 1
    /\ greetsSent = 0

\* C16: a step that receives a telephony media frame sends the AI peer
\* either nothing or one input_audio_buffer.append carrying the received
\* payload; it sends the append exactly when the AI connection is open and
\* the frame has a payload, it changes no session variable, and no other
\* step ever sends an append, so a dropped frame is never sent later.
C16_MediaForwardedOnlyWhenOpen ==
    [][/\ last' = "tw.media" =>
             /\ Len(input') = 1
             /\ (aiState = "open" /\ Truthy(input'[1])) =>
                   aiSent' = <<AiMsg("input_audio_buffer.append", input'[1])>>
             /\ (aiState # "open" \/ ~Truthy(input'[1])) => aiSent' = <<>>
             /\ UNCHANGED <<session, sockets, toTw, greetTimer>>
       /\ last' # "tw.media" =>
             \A i \in 1..Len(aiSent') :
                aiSent'[i].type # "input_audio_buffer.append"]_vars

C16_Witness ==
    /\ last = "tw.media"
    /\ input = <<"p2">>
    /\ aiSent = <<AiMsg("input_audio_buffer.append", "p2")>>
    /\ aiState = "open"
    /\ aiBusy

\* a media frame that arrived while the AI connection was closing: dropped
C16_WitnessDropped ==
    /\ last = "tw.media"
    /\ input = <<"p2">>
    /\ aiSent = <<>>
    /\ aiState = "closing"

\* the media frame that the last step appended to the telephony output
NewMedia == toTw[Len(toTw) - 1]

SentAudio ==
    /\ last = "ai.audio.delta"
    /\ Len(toTw) >= 2
    /\ toTw[Len(toTw)].event = "mark"
    /\ toTw[Len(toTw)].delta = nextDelta - 1
    /\ NewMedia.event = "media"

\* C17: the frame sent for an audio delta of L samples holds floor(L/3)
\* bytes, and byte j (from 0) is the mu-law encoding of sample 3*j.
C17_EveryThirdSampleMuLaw ==
    SentAudio =>
        /\ Len(NewMedia.payload) = Len(input) \div 3
        /\ \A j \in 0..(Len(NewMedia.payload) - 1) :
              NewMedia.payload[j + 1] = MuLawReference(input[3 * j + 1])

\* the part of C17 that is about the resampler: the frame holds floor(L/3)
\* bytes, and byte j is what linearToMuLaw returns for sample 3*j.
C17_EveryThirdSampleEncoded ==
    SentAudio =>
        /\ Len(NewMedia.payload) = Len(input) \div 3
        /\ \A j \in 0..(Len(NewMedia.payload) - 1) :
              NewMedia.payload[j + 1] = linearToMuLaw(input[3 * j + 1])

\* a delta of two samples is sent as a frame without audio
C17_ShortDelta ==
    /\ SentAudio
    /\ Len(input) = 2
    /\ NewMedia.payload = <<>>

C17_TwoBytes ==
    /\ SentAudio
    /\ Len(input) = MaxSamples
    /\ Len(NewMedia.payload) = 2
    /\ NewMedia.payload[2] # NewMedia.payload[1]

\* the frames the last step handed to the telephony peer
Emitted(before, after) == SubSeq(after, Len(before) + 1, Len(after))

\* C18: a telephony start event changes no session variable except the
\* stream identifier, sends nothing to the AI peer, and emits exactly a clear
\* frame, a media frame with the tone and a mark frame, in that order;
\* telephony media, stop and unknown events leave the stream identifier, the
\* busy flag, the queued prompt and the text buffer unchanged and emit nothing.
C18_TelephonyKeepsTurnState ==
    [][/\ last' = "tw.start" =>
             /\ UNCHANGED <<aiBusy, pendingPrompt, lastTextChunk>>
             /\ aiSent' = <<>>
             /\ SubSeq(toTw', 1, Len(toTw)) = toTw
             /\ Len(Emitted(toTw, toTw')) = 3
             /\ Emitted(toTw, toTw')[1].event = "clear"
             /\ Emitted(toTw, toTw')[2].event = "media"
             /\ Emitted(toTw, toTw')[2].payload = generateBeepMuLaw
             /\ Emitted(toTw, toTw')[3].event = "mark"
       /\ last' \in {"tw.media", "tw.stop", "tw.other"} =>
             /\ UNCHANGED <<streamSid, aiBusy, pendingPrompt, lastTextChunk>>
             /\ toTw' = toTw]_vars

C18_Witness ==
    /\ last = "tw.start"
    /\ streamSid = "CA1"
    /\ aiBusy
    /\ pendingPrompt = Greet
    /\ lastTextChunk # <<>>
    /\ Len(toTw) = 3

\* C19: whenever the queue slot holds a prompt the busy flag is true; a step
\* fills the slot only while the flag is true, and every step that clears
\* the flag leaves the slot empty.
C19_QueuedImpliesBusy ==
    /\ [](Truthy(pendingPrompt) => aiBusy)
    /\ [][(~Truthy(pendingPrompt) /\ Truthy(pendingPrompt')) =>
             (aiBusy /\ aiBusy')]_vars
    /\ [][(aiBusy /\ ~aiBusy') => ~Truthy(pendingPrompt')]_vars

C19_Witness ==
    /\ Truthy(pendingPrompt)
    /\ aiBusy
    /\ last = "tw.media"
    /\ peerActive = 1

\* the step that clears the flag with the slot filled
C19_WitnessEmptied ==
    /\ last = "ai.response.done"
    /\ greetsSent = 1
    /\ greetTimer = "fired"
    /\ createsSent = 2
    /\ ~Truthy(pendingPrompt)

\* C20: over the whole call at most one response.create carries the greeting
\* instruction, and the response.create that a committed event sends while
\* the busy flag is false carries no instructions.
C20_GreetingOnceCommitsBare ==
    /\ [](greetsSent <= 1)
    /\ [][last' = "ai.committed" =>
             /\ \A i \in 1..Len(aiSent') : aiSent'[i] = ReplyMsg("null")
             /\ (~aiBusy /\ aiState = "open") => aiSent' = <<ReplyMsg("null")>>
             /\ greetsSent' = greetsSent]_vars

C20_Witness ==
    /\ last = "ai.committed"
    /\ aiSent = <<ReplyMsg("null")>>
    /\ greetsSent = 1
    /\ createsSent = 2

====
